---- MODULE Spec2Model ----
(***************************************************************************)
(* NetBox movie catalogue: the PostgreSQL data-access layer (database.py)  *)
(* and the upload / delete request handlers of the two Flask applications  *)
(* (app.py and movie-website/backend/app.py).                              *)
(*                                                                         *)
(* The catalogue tables are sets of rows, the upload directory is a set of *)
(* file names, the connection pool is the number of lent connections.      *)
(* Every request is served by an independently scheduled worker; a worker  *)
(* executes a database.py function as one step, except delete_movie, whose *)
(* SELECT and DELETE are two statements of a READ COMMITTED transaction,   *)
(* and the file loops of the handlers, whose exists() and remove() calls   *)
(* are separate system calls.                                              *)
(***************************************************************************)
EXTENDS Integers, Sequences, FiniteSets, Bags, TLC

\* ------------------------------------------------------------------ bounds
NumProcs == 2          \* concurrently served requests
MaxMovieSeq == 2       \* values drawn from movies_id_seq
MaxQualitySeq == 2     \* values drawn from qualities_id_seq
MaxLogSeq == 1         \* values drawn from download_log_id_seq
MaxSubtitles == 1      \* subtitle rows
MaxUploads == 2        \* files written by upload requests
MaxLeaked == 1         \* connections that were never returned
MaxQualitiesIn == 2    \* qualities supplied with one movie
MaxWatchSeq == 2       \* values drawn from watchlist_id_seq
MaxUpdates == 1        \* successful updates of one movie row
MaxUserSeq == 3        \* values drawn from users_id_seq

\* ------------------------------------------------------- program constants
PoolMax == 20
TopLanguagesLimit == 5     \* get_dashboard_stats: LIMIT 5
DefaultListLimit == 100    \* get_all_movies(limit=100)
DefaultSearchLimit == 20   \* search_movies(limit=20)

\* ----------------------------------------------------------------- domains
Procs == 1..NumProcs
Null == "null"
Titles == {<<"a">>, <<"A", "b">>}
Langs == {"tamil", "english"}
Codes == {"720p", "1080p"}
Users == {1, 2}
NoPath == <<>>                     \* file_path absent from a quality mapping
Paths == {<<0, <<"e", ".", "m", "p", "4">>>>}
Faults == {"none", "conn", "exec"}

VARIABLES
    movies,        \* rows of table movies
    qualities,     \* rows of table qualities
    subtitles,     \* rows of table subtitles
    watchlist,     \* rows of table watchlist
    download_log,  \* rows of table download_log
    movie_seq,     \* movies_id_seq
    quality_seq,   \* qualities_id_seq
    log_seq,       \* download_log_id_seq
    users,         \* rows of table users
    user_seq,      \* users_id_seq
    watch_seq,     \* watchlist_id_seq
    files,         \* names present in UPLOAD_FOLDER
    uuid_seq,      \* number of uuid4() values drawn
    lent,          \* connections taken from the pool and not put back
    pc,            \* per worker: position in its request
    loc,           \* per worker: local variables of its request
    last           \* the most recently completed operation and its result

vars == <<movies, qualities, subtitles, watchlist, download_log, movie_seq,
          quality_seq, log_seq, users, user_seq, watch_seq, files, uuid_seq,
          lent, pc, loc, last>>

db == <<movies, qualities, subtitles, watchlist, download_log, users>>
seqs == <<movie_seq, quality_seq, log_seq, user_seq, watch_seq>>

\* ----------------------------------------------------------------- helpers
RECURSIVE SeqToBag(_)
SeqToBag(s) ==
    IF s = <<>> THEN EmptyBag ELSE SetToBag({Head(s)}) (+) SeqToBag(Tail(s))

RECURSIVE SortById(_)
\* the rows of S in ascending order of id
SortById(S) ==
    IF S = {} THEN <<>>
    ELSE LET m == CHOOSE r \in S : \A o \in S : r.id <= o.id
         IN <<m>> \o SortById(S \ {m})

Repeat(x, n) == [i \in 1..n |-> x]

Range(s) == {s[i] : i \in 1..Len(s)}

Reverse(s) == [i \in 1..Len(s) |-> s[Len(s) + 1 - i]]

\* LIMIT n
Take(s, n) == SubSeq(s, 1, IF n < Len(s) THEN n ELSE Len(s))

\* sequences over S of length at most n
SeqsUpTo(S, n) == UNION {[1..k -> S] : k \in 0..n}

NoLoc == [ctx |-> "none", id |-> 0, paths |-> <<>>, i |-> 0, removed |-> {},
          file |-> NoPath, title |-> <<>>, language |-> Null, quals |-> <<>>,
          committed |-> FALSE, user |-> 0, sent |-> <<>>, filename |-> NoPath,
          saved |-> FALSE]

\* last holds the result of the operation that produced the current state; a
\* step inside a request that changes the catalogue or the directory resets it
NoLast == [op |-> "none", ctx |-> "none", id |-> 0, ret |-> 0,
           paths |-> <<>>, committed |-> FALSE, fault |-> "none",
           input |-> <<>>, before |-> <<>>, removed |-> {}, file |-> NoPath,
           status |-> 0, success |-> FALSE, stored |-> FALSE,
           raised |-> FALSE, user |-> 0, rows |-> <<>>, limit |-> 0,
           title |-> <<>>, language |-> Null, code |-> Null, keys |-> {},
           filename |-> NoPath]

InRequest == [NoLast EXCEPT !.op = "in_request"]

\* ---------------------------------------------------------- connection pool
\* get_db_connection: pool.getconn() raises when the pool cannot be built or
\* every connection up to the maximum is lent
CanAcquire(fault) == fault # "conn" /\ lent < PoolMax

\* ------------------------------------------------------------ text matching
\* SQL LOWER() on one character of the modelled alphabet
LowerChar(c) ==
    CASE c = "A" -> "a" [] c = "B" -> "b" [] c = "M" -> "m" [] c = "K" -> "k"
      [] c = "V" -> "v" [] c = "P" -> "p" [] c = "S" -> "s" [] OTHER -> c

Lower(s) == [i \in 1..Len(s) |-> LowerChar(s[i])]

\* sub occurs in s as a run of consecutive characters
Contains(s, sub) ==
    \E k \in 0..(Len(s) - Len(sub)) :
        \A i \in 1..Len(sub) : s[k + i] = sub[i]

RECURSIVE StripLeft(_)
StripLeft(s) ==
    IF s # <<>> /\ Head(s) = " " THEN StripLeft(Tail(s)) ELSE s

\* str.strip(): white space at either end is dropped
Strip(s) == Reverse(StripLeft(Reverse(StripLeft(s))))

RECURSIVE Like(_, _)
\* s LIKE pat: "%" matches any run of characters, "_" any one character
Like(s, pat) ==
    IF pat = <<>> THEN s = <<>>
    ELSE IF Head(pat) = "%"
         THEN Like(s, Tail(pat)) \/ (s # <<>> /\ Like(Tail(s), pat))
         ELSE /\ s # <<>>
              /\ (Head(pat) = "_" \/ Head(pat) = Head(s))
              /\ Like(Tail(s), Tail(pat))

\* LOWER(m.title) LIKE LOWER(%s) with the parameter f'%{title}%': the
\* argument goes into the pattern as it is
TitleLike(title, arg) == Like(Lower(title), <<"%">> \o Lower(arg) \o <<"%">>)

\* ------------------------------------------------------------------ queries
QualitiesOf(id) == {q \in qualities : q.movie_id = id}
SubtitlesOf(id) == {s \in subtitles : s.movie_id = id}

QualityJson(q) == [id |-> q.id, code |-> q.code, file_path |-> q.file_path]
SubtitleJson(s) == [id |-> s.id]

RECURSIVE AggQualities(_, _)
\* json_agg over the join rows: one object per (quality, subtitle-or-null) pair
AggQualities(qs, n) ==
    IF qs = <<>> THEN <<>>
    ELSE Repeat(QualityJson(Head(qs)), n) \o AggQualities(Tail(qs), n)

RECURSIVE AggSubtitles(_, _)
AggSubtitles(ss, n) ==
    IF ss = <<>> THEN <<>>
    ELSE Repeat(SubtitleJson(Head(ss)), n) \o AggSubtitles(Tail(ss), n)

Max1(n) == IF n = 0 THEN 1 ELSE n

NotFound == [found |-> FALSE]

\* get_movie_by_id with json_agg lacking FILTER (WHERE q.id IS NOT NULL): the
\* null row of the LEFT JOIN becomes an entry of the list
get_movie_by_id_nofilter(id) ==
    LET hit == {m \in movies : m.id = id /\ m.is_active}
        Q == QualitiesOf(id)
        S == SubtitlesOf(id)
        nullq == [id |-> 0, code |-> Null, file_path |-> NoPath]
    IN IF hit = {} THEN NotFound
       ELSE [found |-> TRUE,
             movie |-> CHOOSE m \in hit : TRUE,
             qualities |-> IF Q = {} THEN Repeat(nullq, Max1(Cardinality(S)))
                           ELSE AggQualities(SortById(Q), Max1(Cardinality(S))),
             subtitles |-> AggSubtitles(SortById(S), Max1(Cardinality(Q)))]

\* movies LEFT JOIN qualities LEFT JOIN subtitles, grouped by movie
get_movie_by_id(id) ==
    LET hit == {m \in movies : m.id = id /\ m.is_active}
        Q == QualitiesOf(id)
        S == SubtitlesOf(id)
    IN IF hit = {} THEN NotFound
       ELSE [found |-> TRUE,
             movie |-> CHOOSE m \in hit : TRUE,
             qualities |-> AggQualities(SortById(Q), Max1(Cardinality(S))),
             subtitles |-> AggSubtitles(SortById(S), Max1(Cardinality(Q)))]

\* the rows the WHERE clause of search_movies selects; an empty title or
\* language argument adds no condition
SearchMatches(title, language) ==
    {m \in movies :
        /\ m.is_active
        /\ (title # <<>> => TitleLike(m.title, title))
        /\ (language # Null => m.language = language)}

\* position of a character in the order of ORDER BY m.title, letters of
\* either case taken alike
CharRank(c) ==
    CASE LowerChar(c) = "a" -> 1 [] LowerChar(c) = "b" -> 2 [] OTHER -> 3

RECURSIVE TitleLeq(_, _)
TitleLeq(a, b) ==
    IF a = <<>> THEN TRUE
    ELSE IF b = <<>> THEN FALSE
    ELSE IF CharRank(Head(a)) # CharRank(Head(b))
         THEN CharRank(Head(a)) < CharRank(Head(b))
         ELSE TitleLeq(Tail(a), Tail(b))

RECURSIVE OrderByTitle(_)
OrderByTitle(S) ==
    IF S = {} THEN <<>>
    ELSE LET m == CHOOSE r \in S :
                     \A o \in S : /\ TitleLeq(r.title, o.title)
                                  /\ (TitleLeq(o.title, r.title) => r.id <= o.id)
         IN <<m>> \o OrderByTitle(S \ {m})

\* one row of search_movies: the movie and the json_agg of its qualities,
\* [] through COALESCE where the LEFT JOIN found none
SearchEntry(m) ==
    LET qs == SortById(QualitiesOf(m.id))
    IN [id |-> m.id, title |-> m.title,
        qualities |-> [i \in 1..Len(qs) |-> [code |-> qs[i].code]]]

\* SELECT DISTINCT m.*, COALESCE(json_agg(..), '[]') AS qualities: DISTINCT
\* needs an equality operator for every column of the select list, and
\* PostgreSQL has none for type json ("could not identify an equality
\* operator for type json"), so the statement is refused whatever the rows
DistinctOverJson == TRUE

\* search_movies: an exception is caught and answered []
search_movies(title, language, limit, fault) ==
    IF ~CanAcquire(fault) \/ fault = "exec" \/ DistinctOverJson THEN <<>>
    ELSE LET ms == OrderByTitle(SearchMatches(title, language))
         IN Take([i \in 1..Len(ms) |-> SearchEntry(ms[i])], limit)

\* the rows of movies JOIN qualities that get_movie_download_link selects
LinkMatches(title, language, code) ==
    {mq \in movies \X qualities :
        /\ mq[2].movie_id = mq[1].id
        /\ TitleLike(mq[1].title, title)
        /\ mq[1].language = language
        /\ mq[2].code = code
        /\ mq[1].is_active}

\* the dictionary get_movie_download_link builds from one selected row
DownloadInfo(mq) ==
    [found |-> TRUE, id |-> mq[1].id, title |-> mq[1].title,
     quality |-> mq[2].id, file_path |-> mq[2].file_path]

\* ------------------------------------------------------------------ inputs
QualityInputs == [code : Codes, file_path : Paths \cup {NoPath}]
\* the sampled (title, language) pairs of a movie_data mapping
TitleLangs == {<<<<"A", "b">>, "tamil">>, <<<<"a">>, "english">>}
MovieInputs ==
    {[title |-> tl[1], language |-> tl[2], qualities |-> qs] :
        tl \in TitleLangs, qs \in SeqsUpTo(QualityInputs, MaxQualitiesIn)}

\* ------------------------------------------------------- database.py writes
\* the checks of the INSERT were qualities declared without
\* UNIQUE(movie_id, quality_code)
QualityInsertOk_nounique(rows, mv, mid, q) ==
    /\ q.file_path # NoPath
    /\ \E m \in mv : m.id = mid

\* INSERT INTO qualities: the row draws its id from the sequence, then the
\* constraints are checked (file_path NOT NULL, movie_id REFERENCES movies,
\* UNIQUE(movie_id, quality_code)); mv is the movies table the statement sees
QualityInsertOk(rows, mv, mid, q) ==
    /\ q.file_path # NoPath
    /\ \E m \in mv : m.id = mid
    /\ ~\E r \in rows : r.movie_id = mid /\ r.code = q.code

QualityRow(id, mid, q) ==
    [id |-> id, movie_id |-> mid, code |-> q.code, file_path |-> q.file_path]

RECURSIVE InsertQualities(_, _, _, _, _)
\* the loop of add_movie over movie_data['qualities']: add_movie_quality with
\* the caller's cursor re-raises the first failure
InsertQualities(rows, qseq, mv, mid, qs) ==
    IF qs = <<>> THEN [ok |-> TRUE, rows |-> rows, seq |-> qseq]
    ELSE IF ~QualityInsertOk(rows, mv, mid, Head(qs))
         THEN [ok |-> FALSE, rows |-> rows, seq |-> qseq + 1]
         ELSE InsertQualities(rows \cup {QualityRow(qseq + 1, mid, Head(qs))},
                              qseq + 1, mv, mid, Tail(qs))

\* year stands for the optional columns a movie_data mapping may leave out
\* (0: null); updated_at counts the times the row's timestamp was set anew
MovieRow(id, data) ==
    [id |-> id, title |-> data.title, language |-> data.language,
     is_active |-> TRUE, year |-> 0, updated_at |-> 0]

\* add_movie committing the movie row although a quality insert failed
add_movie_norollback(data, fault) ==
    IF ~CanAcquire(fault) \/ fault = "exec"
    THEN [ret |-> -1, attempt |-> 0, movies |-> movies, qualities |-> qualities,
          movie_seq |-> movie_seq, quality_seq |-> quality_seq]
    ELSE LET mid == movie_seq + 1
             mv == movies \cup {MovieRow(mid, data)}
             ins == InsertQualities(qualities, quality_seq, mv, mid,
                                    data.qualities)
         IN [ret |-> IF ins.ok THEN mid ELSE -1, attempt |-> mid, movies |-> mv,
             qualities |-> ins.rows, movie_seq |-> mid,
             quality_seq |-> ins.seq]

\* add_movie: one transaction; any exception rolls it back and returns -1,
\* the sequences keep the values they handed out
add_movie(data, fault) ==
    IF ~CanAcquire(fault) \/ fault = "exec"
    THEN [ret |-> -1, attempt |-> 0, movies |-> movies, qualities |-> qualities,
          movie_seq |-> movie_seq, quality_seq |-> quality_seq]
    ELSE LET mid == movie_seq + 1
             mv == movies \cup {MovieRow(mid, data)}
             ins == InsertQualities(qualities, quality_seq, mv, mid,
                                    data.qualities)
         IN IF ins.ok
            THEN [ret |-> mid, attempt |-> mid, movies |-> mv,
                  qualities |-> ins.rows, movie_seq |-> mid,
                  quality_seq |-> ins.seq]
            ELSE [ret |-> -1, attempt |-> mid, movies |-> movies,
                  qualities |-> qualities, movie_seq |-> mid,
                  quality_seq |-> ins.seq]

\* rows of download_log that keep DELETE FROM movies WHERE id = .. from
\* committing: download_log references movies and qualities without ON DELETE
DeleteBlocked(id) ==
    \E l \in download_log :
        \/ l.movie_id = id
        \/ \E q \in QualitiesOf(id) : l.quality_id = q.id

FilePaths(rows) == [i \in 1..Len(rows) |-> rows[i].file_path]

\* -------------------------------------------------------------------- Init
Init ==
    /\ movies = {} /\ qualities = {} /\ subtitles = {} /\ watchlist = {}
    /\ download_log = {}
    /\ movie_seq = 0 /\ quality_seq = 0 /\ log_seq = 0
    /\ users = {} /\ user_seq = 0 /\ watch_seq = 0
    /\ files = {} /\ uuid_seq = 0 /\ lent = 0
    /\ pc = [p \in Procs |-> "idle"]
    /\ loc = [p \in Procs |-> NoLoc]
    /\ last = NoLast

\* ------------------------------------------------ database.py as called API
AddMovie(p) ==
    /\ pc[p] = "idle"
    /\ movie_seq < MaxMovieSeq
    /\ \E data \in MovieInputs, fault \in Faults :
        /\ quality_seq + Len(data.qualities) <= MaxQualitySeq
        /\ LET r == add_movie(data, fault)
           IN /\ movies' = r.movies
              /\ qualities' = r.qualities
              /\ movie_seq' = r.movie_seq
              /\ quality_seq' = r.quality_seq
              /\ last' = [NoLast EXCEPT !.op = "add_movie",
                                        !.ret = r.ret, !.id = r.attempt,
                                        !.input = data.qualities,
                                        !.fault = IF fault = "none" THEN "none"
                                                  ELSE "fail"]
    /\ UNCHANGED <<subtitles, watchlist, download_log, log_seq, users,
                   user_seq, watch_seq, files, uuid_seq, lent, pc, loc>>

\* add_movie_quality(movie_id, quality_data) with cursor = None: the except
\* branch rolls back and re-raises without return_db_connection
AddMovieQuality(p) ==
    /\ pc[p] = "idle"
    /\ quality_seq < MaxQualitySeq
    /\ \E mid \in 1..MaxMovieSeq, q \in QualityInputs, fault \in Faults :
        IF ~CanAcquire(fault)
        THEN /\ UNCHANGED <<qualities, quality_seq, lent>>
             /\ last' = [NoLast EXCEPT !.op = "add_movie_quality", !.raised = TRUE]
        ELSE IF fault = "exec" \/ ~QualityInsertOk(qualities, movies, mid, q)
        THEN /\ lent < MaxLeaked
             /\ lent' = lent + 1
             /\ quality_seq' = IF fault = "exec" THEN quality_seq
                               ELSE quality_seq + 1
             /\ UNCHANGED qualities
             /\ last' = [NoLast EXCEPT !.op = "add_movie_quality", !.raised = TRUE]
        ELSE /\ qualities' = qualities \cup {QualityRow(quality_seq + 1, mid, q)}
             /\ quality_seq' = quality_seq + 1
             /\ UNCHANGED lent
             /\ last' = [NoLast EXCEPT !.op = "add_movie_quality", !.committed = TRUE]
    /\ UNCHANGED <<movies, subtitles, watchlist, download_log, movie_seq,
                   log_seq, users, user_seq, watch_seq, files, uuid_seq, pc,
                   loc>>

\* test_connection: return_db_connection is reached only when SELECT 1 ran
TestConnection(p) ==
    /\ pc[p] = "idle"
    /\ \E fault \in Faults :
        IF ~CanAcquire(fault)
        THEN /\ UNCHANGED lent
             /\ last' = [NoLast EXCEPT !.op = "test_connection"]
        ELSE IF fault = "exec"
        THEN /\ lent < MaxLeaked
             /\ lent' = lent + 1
             /\ last' = [NoLast EXCEPT !.op = "test_connection"]
        ELSE /\ UNCHANGED lent
             /\ last' = [NoLast EXCEPT !.op = "test_connection",
                                       !.success = TRUE]
    /\ UNCHANGED <<db, seqs, files, uuid_seq, pc, loc>>

\* log_download: a failed INSERT is printed and swallowed
LogDownload(p) ==
    /\ pc[p] = "idle"
    /\ log_seq < MaxLogSeq
    /\ \E mid \in 1..MaxMovieSeq, qid \in 1..MaxQualitySeq, fault \in Faults :
        LET ran == CanAcquire(fault) /\ fault = "none"
            ok == /\ ran
                  /\ \E m \in movies : m.id = mid
                  /\ \E q \in qualities : q.id = qid
        IN /\ log_seq' = IF ran THEN log_seq + 1 ELSE log_seq
           /\ download_log' =
                IF ok THEN download_log \cup
                           {[id |-> log_seq + 1, movie_id |-> mid,
                             quality_id |-> qid]}
                ELSE download_log
           /\ last' = [NoLast EXCEPT !.op = "log_download"]
    /\ UNCHANGED <<movies, qualities, subtitles, watchlist, movie_seq,
                   quality_seq, users, user_seq, watch_seq, files, uuid_seq,
                   lent, pc, loc>>

\* add_to_watchlist. The INSERT .. ON CONFLICT (user_id, movie_id) DO NOTHING
\* and the commit are two steps of one transaction. The row draws its id
\* from the sequence before the conflict is looked for; a statement that
\* meets an uncommitted row of the same pair waits for that transaction.
WatchlistConflict_none(u, mid) == FALSE

\* the arbiter of ON CONFLICT: a committed row of the pair under
\* UNIQUE(user_id, movie_id)
WatchlistConflict(u, mid) ==
    \E w \in watchlist : w.user_id = u /\ w.movie_id = mid

\* the column as it would be were it declared without REFERENCES
WatchlistReferenceOk_none(mid) == TRUE

\* movie_id INTEGER NOT NULL REFERENCES movies(id): the row is refused
\* unless a movie of that id exists
WatchlistReferenceOk(mid) == \E m \in movies : m.id = mid

WatchlistWaits(p, u, mid) ==
    \E q \in Procs \ {p} :
        pc[q] = "wl_commit" /\ loc[q].user = u /\ loc[q].id = mid
                            /\ loc[q].committed

WatchlistResult(u, mid, inserted, row, fault) ==
    [NoLast EXCEPT !.op = "add_to_watchlist", !.user = u, !.id = mid,
                   !.success = inserted, !.ret = row,
                   !.fault = IF fault = "none" THEN "none" ELSE "fail",
                   !.before = watchlist]

\* get_db_connection and cursor.execute: a failure (no connection, a failed
\* statement, no movie of that id) is caught and answered False
AddToWatchlistInsert(p) ==
    /\ pc[p] = "idle"
    /\ watch_seq < MaxWatchSeq
    /\ \E u \in Users, mid \in 1..MaxMovieSeq, fault \in Faults :
        IF ~CanAcquire(fault) \/ fault = "exec"
        THEN /\ last' = WatchlistResult(u, mid, FALSE, 0, fault)
             /\ UNCHANGED <<watch_seq, lent, pc, loc>>
        ELSE /\ ~WatchlistWaits(p, u, mid)
             /\ watch_seq' = watch_seq + 1
             /\ IF ~WatchlistReferenceOk(mid)
                THEN /\ last' = WatchlistResult(u, mid, FALSE, 0, "exec")
                     /\ UNCHANGED <<lent, pc, loc>>
                ELSE /\ lent' = lent + 1
                     /\ pc' = [pc EXCEPT ![p] = "wl_commit"]
                     /\ loc' = [loc EXCEPT ![p] =
                                  [NoLoc EXCEPT
                                     !.user = u, !.id = mid,
                                     !.i = watch_seq + 1,
                                     !.committed = ~WatchlistConflict(u, mid)]]
                     /\ UNCHANGED last
    /\ UNCHANGED <<db, movie_seq, quality_seq, log_seq, user_seq, files,
                   uuid_seq>>

\* conn.commit(), return cursor.rowcount > 0, return_db_connection; a failed
\* commit is caught and answered False
AddToWatchlistCommit(p) ==
    /\ pc[p] = "wl_commit"
    /\ \E fault \in {"none", "exec"} :
        LET inserted == loc[p].committed /\ fault = "none"
        IN /\ watchlist' =
                IF inserted
                THEN watchlist \cup {[id |-> loc[p].i, user_id |-> loc[p].user,
                                      movie_id |-> loc[p].id]}
                ELSE watchlist
           /\ last' = WatchlistResult(loc[p].user, loc[p].id, inserted,
                                      IF inserted THEN loc[p].i ELSE 0, fault)
    /\ lent' = lent - 1
    /\ pc' = [pc EXCEPT ![p] = "idle"]
    /\ loc' = [loc EXCEPT ![p] = NoLoc]
    /\ UNCHANGED <<movies, qualities, subtitles, download_log, users, seqs,
                   files, uuid_seq>>

\* ------------------------------------------------------------- update_movie
\* keys of a movie_data mapping: columns of table movies, 'id', a name that
\* is no column, and a key whose text is itself a piece of a SET list
RecognizedKeys == {"title", "language", "is_active", "year"}
InjectedKey == "is_active = FALSE, year"
UpdateKeys == RecognizedKeys \cup {"id", "nocolumn", InjectedKey}

\* the values the sampled mappings carry, by column
NewValue(col) ==
    CASE col = "title" -> <<"b">>
      [] col = "language" -> "english"
      [] col = "is_active" -> FALSE
      [] col = "year" -> 1

\* the columns that the text f"{key} = %s" assigns inside the SET list,
\* {} where the text names no column
ClauseColumns(key) ==
    CASE key \in RecognizedKeys -> {key}
      [] key = InjectedKey -> {"is_active", "year"}
      [] OTHER -> {}

\* the mappings passed as movie_data, as their sets of keys
UpdateInputs ==
    {{}, {"title"}, {"title", "year"}, {"is_active"},
     {"language", "is_active"}, {"id"}, {"id", "year"}, {"nocolumn"},
     {"nocolumn", "title"}, {InjectedKey}, {InjectedKey, "year"},
     {InjectedKey, "title"}}

\* whether PostgreSQL accepts the UPDATE built from the keys: the SET list
\* needs a clause before ", updated_at", every clause must name columns, and
\* no column may be assigned twice
UpdateStatementOk(keys) ==
    LET clauses == keys \ {"id"}
    IN /\ clauses # {}
       /\ \A k \in clauses : ClauseColumns(k) # {}
       /\ \A k1, k2 \in clauses :
              k1 # k2 => ClauseColumns(k1) \cap ClauseColumns(k2) = {}

\* the row written without ", updated_at = CURRENT_TIMESTAMP"
UpdatedRow_keepstamp(m, keys) ==
    LET cols == UNION {ClauseColumns(k) : k \in keys \ {"id"}}
    IN [id |-> m.id,
        title |-> IF "title" \in cols THEN NewValue("title") ELSE m.title,
        language |-> IF "language" \in cols THEN NewValue("language")
                     ELSE m.language,
        is_active |-> IF "is_active" \in cols THEN NewValue("is_active")
                      ELSE m.is_active,
        year |-> IF "year" \in cols THEN NewValue("year") ELSE m.year,
        updated_at |-> m.updated_at]

\* the row after SET <clauses>, updated_at = CURRENT_TIMESTAMP
UpdatedRow(m, keys) ==
    LET cols == UNION {ClauseColumns(k) : k \in keys \ {"id"}}
    IN [id |-> m.id,
        title |-> IF "title" \in cols THEN NewValue("title") ELSE m.title,
        language |-> IF "language" \in cols THEN NewValue("language")
                     ELSE m.language,
        is_active |-> IF "is_active" \in cols THEN NewValue("is_active")
                      ELSE m.is_active,
        year |-> IF "year" \in cols THEN NewValue("year") ELSE m.year,
        updated_at |-> m.updated_at + 1]

\* update_movie: [ret, movies]; any exception rolls back and returns False
update_movie(movie_id, keys, fault) ==
    IF ~CanAcquire(fault) \/ fault = "exec" \/ ~UpdateStatementOk(keys)
    THEN [ret |-> FALSE, movies |-> movies]
    ELSE [ret |-> \E m \in movies : m.id = movie_id,
          movies |-> {IF m.id = movie_id THEN UpdatedRow(m, keys) ELSE m :
                        m \in movies}]

UpdateMovie(p) ==
    /\ pc[p] = "idle"
    /\ \E id \in 1..MaxMovieSeq, keys \in UpdateInputs, fault \in Faults :
        LET r == update_movie(id, keys, fault)
        IN /\ \A m \in movies : m.id = id => m.updated_at < MaxUpdates
           /\ movies' = r.movies
           /\ last' = [NoLast EXCEPT !.op = "update_movie", !.id = id,
                                     !.keys = keys, !.success = r.ret,
                                     !.fault = IF fault = "none" THEN "none"
                                               ELSE "fail"]
    /\ UNCHANGED <<qualities, subtitles, watchlist, download_log, users, seqs,
                   files, uuid_seq, lent, pc, loc>>

\* ---------------------------------------------------------------- searches
\* title arguments: none, substrings in either case, a LIKE wildcard
TitleArgs == {<<>>, <<"a">>, <<"A", "B">>, <<"_">>}
LangArgs == Langs \cup {Null}
SearchLimits == {1, DefaultSearchLimit}

SearchMovies ==
    /\ \E title \in TitleArgs, language \in LangArgs, limit \in SearchLimits,
          fault \in Faults :
        last' = [NoLast EXCEPT !.op = "search_movies", !.title = title,
                               !.language = language, !.limit = limit,
                               !.rows = search_movies(title, language, limit,
                                                      fault),
                               !.fault = IF fault = "none" THEN "none"
                                         ELSE "fail"]
    /\ UNCHANGED <<db, seqs, files, uuid_seq, lent, pc, loc>>

\* get_movie_download_link: LIMIT 1 without ORDER BY answers any one of the
\* selected rows; no row, or an exception, is answered None
GetMovieDownloadLink ==
    /\ \E title \in TitleArgs, language \in LangArgs, code \in Codes,
          fault \in Faults :
        LET rows == IF ~CanAcquire(fault) \/ fault = "exec" THEN {}
                    ELSE LinkMatches(title, language, code)
            call == [NoLast EXCEPT !.op = "get_movie_download_link",
                                   !.title = title, !.language = language,
                                   !.code = code,
                                   !.fault = IF fault = "none" THEN "none"
                                             ELSE "fail"]
        IN IF rows = {} THEN last' = call
           ELSE \E mq \in rows :
                   last' = [call EXCEPT !.success = TRUE,
                                        !.id = DownloadInfo(mq).id,
                                        !.ret = DownloadInfo(mq).quality,
                                        !.file = DownloadInfo(mq).file_path,
                                        !.input = DownloadInfo(mq).title]
    /\ UNCHANGED <<db, seqs, files, uuid_seq, lent, pc, loc>>

\* catalogues the queries are asked of: movie rows with ids up to
\* MaxMovieSeq and quality rows with ids up to MaxQualitySeq that satisfy the
\* constraints of the schema, as add_movie, add_movie_quality, update_movie
\* and delete_movie leave them
CatalogMovies ==
    {ms \in SUBSET [id : 1..MaxMovieSeq, title : Titles, language : Langs,
                    is_active : BOOLEAN, year : {0}, updated_at : {0}] :
        \A m1, m2 \in ms : m1.id = m2.id => m1 = m2}

CatalogQualities(ms) ==
    {qs \in SUBSET [id : 1..MaxQualitySeq, movie_id : {m.id : m \in ms},
                    code : Codes, file_path : Paths] :
        \A q1, q2 \in qs :
            (q1.id = q2.id \/ (q1.movie_id = q2.movie_id /\ q1.code = q2.code))
                => q1 = q2}

InitQuery ==
    /\ movies \in CatalogMovies
    /\ qualities \in CatalogQualities(movies)
    /\ subtitles = {} /\ watchlist = {} /\ download_log = {}
    /\ movie_seq = MaxMovieSeq /\ quality_seq = MaxQualitySeq /\ log_seq = 0
    /\ users = {} /\ user_seq = 0 /\ watch_seq = 0
    /\ files = {} /\ uuid_seq = 0 /\ lent = 0
    /\ pc = [p \in Procs |-> "idle"]
    /\ loc = [p \in Procs |-> NoLoc]
    /\ last = NoLast

\* ----------------------------------------------------------- get_all_movies
WatchlistOf(id) == {w \in watchlist : w.movie_id = id}

\* COUNT(q.id) over movies LEFT JOIN qualities LEFT JOIN watchlist grouped by
\* movie: the group has one row per (quality, watchlist entry) pair, a side
\* without rows contributes one null row, and rows with q.id null are not
\* counted
JoinQualityCount(id) ==
    Cardinality(QualitiesOf(id)) * Max1(Cardinality(WatchlistOf(id)))

\* one MovieSummary: COUNT(q.id), COUNT(DISTINCT w.id)
MovieSummary(m) ==
    [id |-> m.id, quality_count |-> JoinQualityCount(m.id),
     watchlist_count |-> Cardinality(WatchlistOf(m.id))]

\* sizes a caller passes as limit
Limits == {1, DefaultListLimit}

\* every movie, ORDER BY created_at DESC (created_at defaults to the time of
\* the insert, so the order is that of descending id), LIMIT limit; a failure
\* is caught and answered []
get_all_movies(limit, fault) ==
    IF ~CanAcquire(fault) \/ fault = "exec" THEN <<>>
    ELSE LET ms == Reverse(SortById(movies))
         IN Take([i \in 1..Len(ms) |-> MovieSummary(ms[i])], limit)

GetAllMovies(p) ==
    /\ pc[p] = "idle"
    /\ \E limit \in Limits, fault \in Faults :
        last' = [NoLast EXCEPT !.op = "get_all_movies", !.limit = limit,
                               !.rows = get_all_movies(limit, fault),
                               !.fault = IF fault = "none" THEN "none"
                                         ELSE "fail"]
    /\ UNCHANGED <<db, seqs, files, uuid_seq, lent, pc, loc>>

\* a row of table subtitles written by the catalogue's owner: no function of
\* database.py inserts one, the schema and get_movie_by_id provide for them
InsertSubtitle ==
    /\ Cardinality(subtitles) < MaxSubtitles
    /\ \E m \in movies, id \in 1..MaxSubtitles :
        /\ ~\E s \in subtitles : s.id = id
        /\ subtitles' = subtitles \cup {[id |-> id, movie_id |-> m.id]}
    /\ last' = [NoLast EXCEPT !.op = "insert_subtitle"]
    /\ UNCHANGED <<movies, qualities, watchlist, download_log, users, seqs,
                   files, uuid_seq, lent, pc, loc>>

\* ------------------------------------------------------------- delete_movie
DeleteResult(ctx, id, ret, ok, fault) ==
    [NoLast EXCEPT !.op = "delete_movie", !.ctx = ctx, !.id = id,
                   !.paths = ret, !.committed = ok,
                   !.fault = IF fault = "none" THEN "none" ELSE "fail",
                   !.before = <<{m \in movies : m.id = id}, QualitiesOf(id),
                                SubtitlesOf(id), WatchlistOf(id)>>]

\* where the caller of delete_movie goes on: the API caller has its result,
\* admin_delete_movie starts its loop over the returned paths
AfterDelete(p, ctx, id, ret, ok, fault) ==
    /\ pc' = [pc EXCEPT ![p] = IF ctx = "api" THEN "idle" ELSE "reap"]
    /\ loc' = [loc EXCEPT ![p] =
                 IF ctx = "api" THEN NoLoc
                 ELSE [NoLoc EXCEPT !.ctx = ctx, !.id = id, !.paths = ret,
                                    !.i = 1, !.committed = ok]]
    /\ last' = IF ctx = "api" THEN DeleteResult(ctx, id, ret, ok, fault)
               ELSE InRequest

\* the reference check of an inserted watchlist row locks the movie row it
\* names until its transaction ends: a DELETE of that movie waits for it
DeleteWaits(p, id) ==
    \E q \in Procs \ {p} :
        pc[q] = "wl_commit" /\ loc[q].id = id /\ loc[q].committed

\* get_db_connection and SELECT file_path FROM qualities WHERE movie_id = id
DeleteMovieSelect(p, ctx) ==
    /\ pc[p] = "idle"
    /\ \E id \in 1..MaxMovieSeq, fault \in Faults :
        IF ~CanAcquire(fault) \/ fault = "exec"
        THEN /\ AfterDelete(p, ctx, id, <<>>, FALSE, fault)
             /\ UNCHANGED lent
        ELSE /\ lent' = lent + 1
             /\ pc' = [pc EXCEPT ![p] = "dm_delete"]
             /\ loc' = [loc EXCEPT ![p] =
                          [NoLoc EXCEPT !.ctx = ctx, !.id = id,
                             !.paths = FilePaths(SortById(QualitiesOf(id)))]]
             /\ UNCHANGED last
    /\ UNCHANGED <<db, seqs, files, uuid_seq>>

\* the DELETE as it would run were download_log declared with ON DELETE
\* CASCADE: nothing keeps it from committing, the log rows go with the movie
DeleteMovieDelete_cascadelog(p) ==
    /\ pc[p] = "dm_delete"
    /\ ~DeleteWaits(p, loc[p].id)
    /\ \E fault \in {"none", "exec"} :
        LET id == loc[p].id
            ok == fault = "none"
            ret == IF ok THEN loc[p].paths ELSE <<>>
        IN /\ movies' = IF ok THEN {m \in movies : m.id # id} ELSE movies
           /\ qualities' = IF ok THEN qualities \ QualitiesOf(id) ELSE qualities
           /\ subtitles' = IF ok THEN subtitles \ SubtitlesOf(id) ELSE subtitles
           /\ watchlist' = IF ok THEN {w \in watchlist : w.movie_id # id}
                           ELSE watchlist
           /\ download_log' =
                IF ok THEN {l \in download_log :
                               /\ l.movie_id # id
                               /\ \A q \in QualitiesOf(id) : l.quality_id # q.id}
                ELSE download_log
           /\ AfterDelete(p, loc[p].ctx, id, ret, ok, fault)
    /\ lent' = lent - 1
    /\ UNCHANGED <<users, seqs, files, uuid_seq>>

\* DELETE FROM movies WHERE id = id (ON DELETE CASCADE on qualities,
\* subtitles, watchlist), commit or rollback, return_db_connection
DeleteMovieDelete(p) ==
    /\ pc[p] = "dm_delete"
    /\ ~DeleteWaits(p, loc[p].id)
    /\ \E fault \in {"none", "exec"} :
        LET id == loc[p].id
            ok == fault = "none" /\ ~DeleteBlocked(id)
            ret == IF ok THEN loc[p].paths ELSE <<>>
        IN /\ movies' = IF ok THEN {m \in movies : m.id # id} ELSE movies
           /\ qualities' = IF ok THEN qualities \ QualitiesOf(id) ELSE qualities
           /\ subtitles' = IF ok THEN subtitles \ SubtitlesOf(id) ELSE subtitles
           /\ watchlist' = IF ok THEN {w \in watchlist : w.movie_id # id}
                           ELSE watchlist
           /\ AfterDelete(p, loc[p].ctx, id, ret, ok, fault)
    /\ lent' = lent - 1
    /\ UNCHANGED <<download_log, users, seqs, files, uuid_seq>>

\* --------------------------------------------------- upload / delete requests
\* the handlers of app.py ("root") and movie-website/backend/app.py ("backend")
Variants == {"root", "backend"}

ALLOWED_EXTENSIONS ==
    {<<"m", "p", "4">>, <<"a", "v", "i">>, <<"m", "k", "v">>,
     <<"m", "o", "v">>, <<"w", "e", "b", "m">>}

\* file names a client sends; NoPath stands for a request without a file
FileNames ==
    {<<"m", ".", "M", "K", "V">>, <<"m", ".", "t", "x", "t">>, <<"m">>}

\* filename.rsplit(".", 1)[1]
LastDot(fn) ==
    CHOOSE i \in 1..Len(fn) :
        fn[i] = "." /\ \A j \in (i + 1)..Len(fn) : fn[j] # "."

allowed_file(fn) ==
    /\ \E i \in 1..Len(fn) : fn[i] = "."
    /\ Lower(SubSeq(fn, LastDot(fn) + 1, Len(fn))) \in ALLOWED_EXTENSIONS

\* werkzeug's secure_filename on the modelled alphabet: path separators are
\* dropped, letters, digits and inner dots are kept
secure_filename(fn) == SelectSeq(fn, LAMBDA c : c # "/")

\* the stored name without the uuid in front
UniqueFilename_nouuid(n, fn) == <<0, secure_filename(fn)>>

\* f"{uuid.uuid4().hex}_{filename}": the n-th uuid drawn and the file name
UniqueFilename(n, fn) == <<n, secure_filename(fn)>>

\* the form field 'qualities' of the backend handler: NoList stands for
\* invalid JSON or JSON that is no list (an absent field is '[]'); otherwise a list
\* whose entries are objects with a code, objects without one ("nocode") or
\* values that are no objects ("notdict")
QualityEntries == Codes \cup {"nocode", "notdict"}
NoList == <<"nolist">>
QualitiesJson == {NoList} \cup SeqsUpTo(QualityEntries, MaxQualitiesIn)

\* json.loads and the isinstance test of the backend handler
ParseQualities(qj) == IF qj = NoList THEN <<"nocode">> ELSE qj

\* quality.get('code', '720p')
EntryCode(e) == IF e = "nocode" THEN "720p" ELSE e

\* movie_data['qualities'] as the handler builds it: the root handler always
\* supplies one 720p quality, the backend handler one per parsed entry
UploadQualities(variant, qj, unique) ==
    LET es == IF variant = "root" THEN <<"720p">> ELSE ParseQualities(qj)
    IN [i \in 1..Len(es) |-> [code |-> EntryCode(es[i]), file_path |-> unique]]

\* quality.get on an entry that is no object raises
QualitiesRaise(variant, qj) ==
    variant = "backend" /\ qj # NoList /\ "notdict" \in Range(qj)

\* the sampled (title, language) form fields: two accepted, an empty title
\* and one of white space
UploadInputs ==
    {<<<<"A", "b">>, "tamil">>, <<<<"S", "a", "m", "p", "l", "e">>, "english">>,
     <<<<>>, "tamil">>, <<<<" ">>, "tamil">>}

\* the forms a client may send: <<title, language, file name>>
UploadForms ==
    {<<tl[1], tl[2], fn>> : tl \in UploadInputs, fn \in FileNames \cup {NoPath}}

\* one accepted form and one refused form
PlainForms ==
    {<<<<"A", "b">>, "tamil", <<"m", ".", "M", "K", "V">>>>,
     <<<<>>, "tamil", NoPath>>}

RECURSIVE PendingQualities(_)
\* quality rows the uploads between file.save and add_movie will insert
PendingQualities(S) ==
    IF S = {} THEN 0
    ELSE LET p == CHOOSE q \in S : TRUE
         IN (IF pc[p] = "up_persist" THEN Len(loc[p].quals) ELSE 0)
            + PendingQualities(S \ {p})

PendingMovies == Cardinality({p \in Procs : pc[p] = "up_persist"})

UploadResponse(variant, status, movie_id, unique, stored, attempt) ==
    [NoLast EXCEPT !.op = "upload", !.status = status,
                   !.success = (status = 200), !.ret = movie_id,
                   !.file = unique, !.stored = stored, !.id = attempt]

\* the response together with the title and the file name the client sent
UploadAnswer(resp, title, fn) ==
    [resp EXCEPT !.title = title, !.filename = fn]

\* what the client sends, by handler: the root handler reads no qualities
QualitiesJsonOf(variant) ==
    IF variant = "root" THEN {NoList} ELSE QualitiesJson

\* the validation without its test of the title
ValidUpload_anytitle(title, fn) == fn # NoPath /\ allowed_file(fn)

\* title = request.form.get('title', '').strip(); not title, not file,
\* not allowed_file(file.filename)
ValidUpload(title, fn) ==
    Strip(title) # <<>> /\ fn # NoPath /\ allowed_file(fn)

\* room left under the bounds for one more upload past validation
UploadRoom(n) ==
    /\ uuid_seq < MaxUploads
    /\ movie_seq + PendingMovies < MaxMovieSeq
    /\ quality_seq + PendingQualities(Procs) + n <= MaxQualitySeq

\* admin_upload_movie, validation: an empty title, no file or a file name
\* that allowed_file refuses is answered 400 before anything is written
UploadReject(p, variant, forms) ==
    /\ pc[p] = "idle"
    /\ \E tl \in forms, fn \in FileNames \cup {NoPath} :
        /\ fn = tl[3]
        /\ ~ValidUpload(tl[1], fn)
        /\ last' = UploadAnswer(UploadResponse(variant, 400, 0, NoPath,
                                                FALSE, 0), tl[1], fn)
    /\ UNCHANGED <<db, seqs, files, uuid_seq, lent, pc, loc>>

\* the handler as it would run were the exception of file.save swallowed:
\* it goes on to movie_data and add_movie_to_db with the default quality
UploadSaveFails_goeson(p, variant, forms) ==
    /\ pc[p] = "idle"
    /\ \E tl \in forms, fn \in FileNames, partial \in BOOLEAN :
        /\ fn = tl[3]
        /\ ValidUpload(tl[1], fn)
        /\ LET unique == UniqueFilename(uuid_seq + 1, fn)
               quals == UploadQualities(variant, NoList, unique)
           IN /\ UploadRoom(Len(quals))
              /\ files' = IF partial THEN files \cup {unique} ELSE files
              /\ pc' = [pc EXCEPT ![p] = "up_persist"]
              /\ loc' = [loc EXCEPT ![p] =
                           [NoLoc EXCEPT !.ctx = variant, !.file = unique,
                                         !.title = Strip(tl[1]),
                                         !.sent = tl[1], !.filename = fn,
                                         !.language = tl[2],
                                         !.quals = quals]]
              /\ last' = InRequest
    /\ uuid_seq' = uuid_seq + 1
    /\ UNCHANGED <<db, seqs, lent>>

\* admin_upload_movie, file.save raising (no file created, or a partly
\* written one left behind): the outer handler answers 500
UploadSaveFails(p, variant, forms) ==
    /\ pc[p] = "idle"
    /\ UploadRoom(0)
    /\ \E tl \in forms, fn \in FileNames, partial \in BOOLEAN :
        /\ fn = tl[3]
        /\ ValidUpload(tl[1], fn)
        /\ LET unique == UniqueFilename(uuid_seq + 1, fn)
           IN /\ files' = IF partial THEN files \cup {unique} ELSE files
              /\ last' = UploadAnswer(UploadResponse(variant, 500, 0, unique,
                                                      FALSE, 0), tl[1], fn)
    /\ uuid_seq' = uuid_seq + 1
    /\ UNCHANGED <<db, seqs, lent, pc, loc>>

\* admin_upload_movie through file.save and the construction of movie_data:
\* the unique name, the write to UPLOAD_FOLDER (saved: file.save returned),
\* the qualities; an entry of
\* the qualities list that is no object raises after the file was saved
UploadStore(p, variant, forms) ==
    /\ pc[p] = "idle"
    /\ \E tl \in forms, fn \in FileNames,
          qj \in QualitiesJsonOf(variant) :
        /\ fn = tl[3]
        /\ ValidUpload(tl[1], fn)
        /\ LET unique == UniqueFilename(uuid_seq + 1, fn)
               quals == IF QualitiesRaise(variant, qj) THEN <<>>
                        ELSE UploadQualities(variant, qj, unique)
           IN /\ UploadRoom(Len(quals))
              /\ files' = files \cup {unique}
              /\ IF QualitiesRaise(variant, qj)
                 THEN /\ last' = UploadAnswer(
                                     UploadResponse(variant, 500, 0, unique,
                                                    TRUE, 0), tl[1], fn)
                      /\ UNCHANGED <<pc, loc>>
                 ELSE /\ pc' = [pc EXCEPT ![p] = "up_persist"]
                      /\ loc' = [loc EXCEPT ![p] =
                                   [NoLoc EXCEPT !.ctx = variant,
                                                 !.file = unique,
                                                 !.saved = TRUE,
                                                 !.title = Strip(tl[1]),
                                                 !.sent = tl[1],
                                                 !.filename = fn,
                                                 !.language = tl[2],
                                                 !.quals = quals]]
                      /\ last' = InRequest
    /\ uuid_seq' = uuid_seq + 1
    /\ UNCHANGED <<db, seqs, lent>>

\* add_movie_to_db(movie_data) and the response. add_movie returns -1 where
\* it fails and raises nothing, so the handler answers success with the id
\* it got. add_movie_to_db raises only when "from database import add_movie"
\* does (fault "import"): the backend handler's except branch then removes
\* the file and answers 500, the root handler answers 500 and keeps the file.
\* ret = -1 in the recorded response: the request obtained no movie id
UploadPersist(p) ==
    /\ pc[p] = "up_persist"
    /\ \E fault \in Faults \cup {"import"} :
        LET unique == loc[p].file
            data == [title |-> loc[p].title, language |-> loc[p].language,
                     qualities |-> loc[p].quals]
            r == add_movie(data, fault)
        IN IF fault = "import"
           THEN /\ UNCHANGED <<movies, qualities, movie_seq, quality_seq>>
                /\ files' = IF loc[p].ctx = "backend" THEN files \ {unique}
                            ELSE files
                /\ last' = UploadAnswer(
                               UploadResponse(loc[p].ctx, 500, -1, unique,
                                              TRUE, 0),
                               loc[p].sent, loc[p].filename)
           ELSE /\ movies' = r.movies
                /\ qualities' = r.qualities
                /\ movie_seq' = r.movie_seq
                /\ quality_seq' = r.quality_seq
                /\ files' = files
                /\ last' = UploadAnswer(
                               UploadResponse(loc[p].ctx, 200, r.ret, unique,
                                              TRUE, r.attempt),
                               loc[p].sent, loc[p].filename)
    /\ pc' = [pc EXCEPT ![p] = "idle"]
    /\ loc' = [loc EXCEPT ![p] = NoLoc]
    /\ UNCHANGED <<subtitles, watchlist, download_log, log_seq, users,
                   user_seq, watch_seq, uuid_seq, lent>>

\* ------------------------------------------------------------ search request
\* the keys of sample_movies in dictionary order: the root handler has
\* 'sample', the backend handler 'sample' and 'test'
SampleKeys(variant) ==
    IF variant = "root" THEN << <<"s", "a", "m", "p", "l", "e">> >>
    ELSE << <<"s", "a", "m", "p", "l", "e">>, <<"t", "e", "s", "t">> >>

\* sample_movies[key]['movie']['title']
SampleTitle(key) ==
    IF key = <<"s", "a", "m", "p", "l", "e">>
    THEN <<"S", "a", "m", "p", "l", "e", " ", "V", "i", "d", "e", "o">>
    ELSE <<"T", "e", "s", "t", " ", "V", "i", "d", "e", "o">>

\* the query string of GET /api/search; Null stands for an absent argument
SearchTitleArgs == {<<"a">>, <<" ", "b">>, <<"s", "a", "m", "p", "l", "e">>}
SearchLangArgs == Langs \cup {Null}
SearchCodeArgs == {"720p"}

\* search_movie: the title is stripped, lang defaults to 'tamil', quality to
\* '720p'; the first sample key the lowered title contains answers the
\* request before the database is asked; otherwise the row
\* get_movie_download_link selected answers it, and no row, a failure of the
\* database or of the import answers available: false. With a sample answer
\* the database is not asked: the fault recorded is the state it is in
SearchRequest(variant) ==
    /\ \E t \in SearchTitleArgs, l \in SearchLangArgs, c \in SearchCodeArgs,
          fault \in Faults \cup {"import"} :
        LET title == Strip(t)
            lang == IF l = Null THEN "tamil" ELSE l
            quality == IF c = Null THEN "720p" ELSE c
            keys == SampleKeys(variant)
            hit == {i \in 1..Len(keys) : Contains(Lower(title), keys[i])}
            rows == IF fault = "none" /\ CanAcquire(fault)
                    THEN LinkMatches(title, lang, quality) ELSE {}
            asked == [NoLast EXCEPT !.op = "search_request", !.ctx = variant,
                                    !.title = t, !.language = l, !.code = c]
        IN IF hit # {}
           THEN /\ fault \in {"none", "conn"}
                /\ last' = [asked EXCEPT
                               !.success = TRUE,
                               !.fault = fault,
                               !.input = SampleTitle(keys[
                                   CHOOSE i \in hit : \A j \in hit : i <= j])]
           ELSE \/ /\ rows = {}
                   /\ last' = [asked EXCEPT !.fault = fault]
                \/ \E mq \in rows :
                       last' = [asked EXCEPT !.success = TRUE,
                                             !.id = mq[1].id,
                                             !.ret = mq[2].id,
                                             !.input = mq[1].title,
                                             !.file = mq[2].file_path]
    /\ UNCHANGED <<db, seqs, files, uuid_seq, lent, pc, loc>>

\* admin_delete_movie when "from database import delete_movie" raises: no
\* statement ran, the handler answers 500
DeleteImportFails(p) ==
    /\ pc[p] = "idle"
    /\ \E id \in 1..MaxMovieSeq :
        last' = [NoLast EXCEPT !.op = "delete_request", !.id = id,
                               !.status = 500, !.fault = "fail"]
    /\ UNCHANGED <<db, seqs, files, uuid_seq, lent, pc, loc>>

DeleteResponse(p, status, os) ==
    [NoLast EXCEPT !.op = "delete_request", !.id = loc[p].id,
                   !.fault = IF os = "ok" THEN "none" ELSE "fail", !.status = status,
                   !.success = (status = 200), !.paths = loc[p].paths,
                   !.committed = loc[p].committed,
                   !.removed = loc[p].removed]

\* admin_delete_movie, loop head: os.path.exists on the next returned path
ReapCheck(p) ==
    /\ pc[p] = "reap"
    /\ loc[p].i <= Len(loc[p].paths)
    /\ IF loc[p].paths[loc[p].i] \in files
       THEN /\ pc' = [pc EXCEPT ![p] = "reap_remove"]
            /\ UNCHANGED loc
       ELSE /\ loc' = [loc EXCEPT ![p].i = @ + 1]
            /\ UNCHANGED pc
    /\ UNCHANGED <<db, seqs, files, uuid_seq, lent, last>>

\* admin_delete_movie, os.remove: it raises when the file is gone by now or
\* the file system refuses; the handler then answers 500
ReapRemove(p) ==
    /\ pc[p] = "reap_remove"
    /\ \E os \in {"ok", "oserror"} :
        LET f == loc[p].paths[loc[p].i]
        IN IF f \in files /\ os = "ok"
           THEN /\ files' = files \ {f}
                /\ loc' = [loc EXCEPT ![p].i = @ + 1,
                                      ![p].removed = @ \cup {f}]
                /\ pc' = [pc EXCEPT ![p] = "reap"]
                /\ last' = InRequest
           ELSE /\ last' = DeleteResponse(p, 500, os)
                /\ pc' = [pc EXCEPT ![p] = "idle"]
                /\ loc' = [loc EXCEPT ![p] = NoLoc]
                /\ UNCHANGED files
    /\ UNCHANGED <<db, seqs, uuid_seq, lent>>

\* admin_delete_movie after the loop: jsonify success
DeleteRespond(p) ==
    /\ pc[p] = "reap"
    /\ loc[p].i > Len(loc[p].paths)
    /\ last' = DeleteResponse(p, 200, "ok")
    /\ pc' = [pc EXCEPT ![p] = "idle"]
    /\ loc' = [loc EXCEPT ![p] = NoLoc]
    /\ UNCHANGED <<db, seqs, files, uuid_seq, lent>>

\* ------------------------------------------------------ get_dashboard_stats
\* GROUP BY language over all movies, inactive ones counted too
LanguageGroups_all ==
    {[language |-> l, count |-> Cardinality({m \in movies : m.language = l})] :
        l \in {m.language : m \in movies}}

\* SELECT language, COUNT(*) as count FROM movies WHERE is_active = TRUE
\* GROUP BY language
LanguageGroups ==
    {[language |-> l,
      count |-> Cardinality({m \in movies : m.is_active /\ m.language = l})] :
        l \in {m.language : m \in {a \in movies : a.is_active}}}

\* ORDER BY count DESC LIMIT 5: rows is one of the orders the statement may
\* produce, groups of equal count standing in any order
IsTopLanguages(rows) ==
    LET G == LanguageGroups
        n == IF Cardinality(G) < TopLanguagesLimit THEN Cardinality(G)
             ELSE TopLanguagesLimit
    IN /\ Len(rows) = n
       /\ \A i, j \in 1..n : i < j =>
              rows[i] # rows[j] /\ rows[i].count >= rows[j].count
       /\ \A g \in G \ Range(rows) : \A i \in 1..n : rows[i].count >= g.count

\* SELECT COUNT(*) as total_movies FROM movies WHERE is_active = TRUE
TotalMovies == Cardinality({m \in movies : m.is_active})

StatsResult(total, rows, ok, fault) ==
    [NoLast EXCEPT !.op = "get_dashboard_stats", !.ret = total, !.rows = rows,
                   !.success = ok,
                   !.fault = IF fault = "none" THEN "none" ELSE "fail"]

\* get_dashboard_stats: the dictionary of the counts, and {} where
\* get_db_connection or a statement fails (total_downloads and total_users
\* are counted the same way and left out here)
GetDashboardStats ==
    /\ \E fault \in Faults :
        IF ~CanAcquire(fault) \/ fault = "exec"
        THEN last' = StatsResult(0, <<>>, FALSE, fault)
        ELSE LET n == IF Cardinality(LanguageGroups) < TopLanguagesLimit
                      THEN Cardinality(LanguageGroups) ELSE TopLanguagesLimit
             IN \E rows \in [1..n -> LanguageGroups] :
                    /\ IsTopLanguages(rows)
                    /\ last' = StatsResult(TotalMovies, rows, TRUE, fault)
    /\ UNCHANGED <<db, seqs, files, uuid_seq, lent, pc, loc>>

\* the catalogues the statistics are taken of: six languages, one of them
\* with two active movies, and rows that are inactive
StatLangs ==
    <<"tamil", "english", "hindi", "telugu", "malayalam", "kannada">>

StatRows ==
    {MovieRow(i, [title |-> <<"a">>, language |-> StatLangs[i]]) : i \in 1..6}
    \cup {MovieRow(7, [title |-> <<"a">>, language |-> "tamil"]),
          [MovieRow(8, [title |-> <<"a">>, language |-> "english"])
              EXCEPT !.is_active = FALSE],
          [MovieRow(9, [title |-> <<"a">>, language |-> "kannada"])
              EXCEPT !.is_active = FALSE]}

InitStats ==
    /\ movies \in SUBSET StatRows
    /\ qualities = {} /\ subtitles = {} /\ watchlist = {}
    /\ download_log = {}
    /\ movie_seq = 9 /\ quality_seq = 0 /\ log_seq = 0
    /\ users = {} /\ user_seq = 0 /\ watch_seq = 0
    /\ files = {} /\ uuid_seq = 0 /\ lent = 0
    /\ pc = [p \in Procs |-> "idle"]
    /\ loc = [p \in Procs |-> NoLoc]
    /\ last = NoLast

\* ------------------------------------------------------------ init_database
\* the row init_database seeds
AdminUser == [username |-> "admin", email |-> "admin@netbox.com"]

\* accounts written to table users by other means than init_database
OtherUsers ==
    {[username |-> "Admin", email |-> "owner@netbox.com"],
     [username |-> "owner", email |-> "admin@netbox.com"]}

UserRow(id, u) == [id |-> id, username |-> u.username, email |-> u.email]

\* username VARCHAR(50) UNIQUE, email VARCHAR(100) UNIQUE
UserConflict(u) ==
    \E r \in users : r.username = u.username \/ r.email = u.email

\* an INSERT of u waits while another transaction holds an uncommitted row
\* with the same username or email; only init_database leaves one pending
UserInsertWaits(p) == \E q \in Procs \ {p} : pc[q] = "init_commit"

\* SELECT COUNT(*) FROM users WHERE username = 'admin'
AdminCount == Cardinality({r \in users : r.username = AdminUser.username})

InitResult(raised, fault, inserted) ==
    [NoLast EXCEPT !.op = "init_database", !.raised = raised,
                   !.fault = IF fault = "none" THEN "none" ELSE "fail",
                   !.committed = inserted, !.before = users]

\* init_database leaving through except and finally: rollback, the
\* connection goes back to the pool
InitFails(p, fault) ==
    /\ pc' = [pc EXCEPT ![p] = "idle"]
    /\ loc' = [loc EXCEPT ![p] = NoLoc]
    /\ last' = InitResult(TRUE, fault, FALSE)

\* get_db_connection, CREATE TABLE / INDEX IF NOT EXISTS, commit. A
\* statement also fails ("exec") where a concurrent call creates the same
\* table at the same time
InitTables(p) ==
    /\ pc[p] = "idle"
    /\ \E fault \in Faults :
        IF ~CanAcquire(fault)
        THEN InitFails(p, "conn") /\ UNCHANGED lent
        ELSE IF fault = "exec"
        THEN InitFails(p, fault) /\ UNCHANGED lent
        ELSE /\ lent' = lent + 1
             /\ pc' = [pc EXCEPT ![p] = "init_count"]
             /\ last' = InRequest
             /\ UNCHANGED loc
    /\ UNCHANGED <<db, seqs, files, uuid_seq>>

\* SELECT COUNT(*) .. WHERE username = 'admin' and the test of the count
InitCount(p) ==
    /\ pc[p] = "init_count"
    /\ \E fault \in {"none", "exec"} :
        IF fault = "exec"
        THEN InitFails(p, fault) /\ lent' = lent - 1
        ELSE IF AdminCount = 0
        THEN /\ pc' = [pc EXCEPT ![p] = "init_insert"]
             /\ UNCHANGED <<loc, last, lent>>
        ELSE /\ pc' = [pc EXCEPT ![p] = "idle"]
             /\ last' = InitResult(FALSE, "none", FALSE)
             /\ lent' = lent - 1
             /\ UNCHANGED loc
    /\ UNCHANGED <<db, seqs, files, uuid_seq>>

\* INSERT INTO users .. ('admin', 'admin@netbox.com', ..): the id is drawn,
\* a committed row with the same username or email makes the statement fail
InitInsert(p) ==
    /\ pc[p] = "init_insert"
    /\ ~UserInsertWaits(p)
    /\ user_seq < MaxUserSeq
    /\ \E fault \in {"none", "exec"} :
        IF fault = "exec"
        THEN InitFails(p, fault) /\ lent' = lent - 1 /\ UNCHANGED user_seq
        ELSE /\ user_seq' = user_seq + 1
             /\ IF UserConflict(AdminUser)
                THEN InitFails(p, "none") /\ lent' = lent - 1
                ELSE /\ pc' = [pc EXCEPT ![p] = "init_commit"]
                     /\ loc' = [loc EXCEPT ![p].id = user_seq + 1]
                     /\ UNCHANGED <<last, lent>>
    /\ UNCHANGED <<db, movie_seq, quality_seq, log_seq, watch_seq, files,
                   uuid_seq>>

\* conn.commit() after the INSERT, then finally
InitCommit(p) ==
    /\ pc[p] = "init_commit"
    /\ \E fault \in {"none", "exec"} :
        IF fault = "exec"
        THEN InitFails(p, fault) /\ UNCHANGED users
        ELSE /\ users' = users \cup {UserRow(loc[p].id, AdminUser)}
             /\ pc' = [pc EXCEPT ![p] = "idle"]
             /\ loc' = [loc EXCEPT ![p] = NoLoc]
             /\ last' = InitResult(FALSE, "none", TRUE)
    /\ lent' = lent - 1
    /\ UNCHANGED <<movies, qualities, subtitles, watchlist, download_log,
                   seqs, files, uuid_seq>>

\* an account stored by other means than init_database
InsertUser ==
    /\ user_seq < MaxUserSeq
    /\ \A q \in Procs : pc[q] # "init_commit"
    /\ \E u \in OtherUsers :
        /\ ~UserConflict(u)
        /\ users' = users \cup {UserRow(user_seq + 1, u)}
    /\ user_seq' = user_seq + 1
    /\ last' = [NoLast EXCEPT !.op = "insert_user"]
    /\ UNCHANGED <<movies, qualities, subtitles, watchlist, download_log,
                   movie_seq, quality_seq, log_seq, watch_seq, files,
                   uuid_seq, lent, pc, loc>>

\* ------------------------------------------------------------------ startup
\* a worker importing the application: "from database import .." runs
\* init_database and test_connection of database.py at import, the
\* application's init_database wrapper runs it once more. Where
\* get_db_connection raises (DATABASE_URL missing: ValueError; backend
\* unreachable or pool exhausted) or a CREATE statement fails, every one of
\* them catches the exception and the worker serves; otherwise the worker
\* goes on with the seeding of init_database and serves after it
Startup(p) ==
    /\ pc[p] = "starting"
    /\ \E fault \in Faults :
        IF ~CanAcquire(fault) \/ fault = "exec"
        THEN /\ pc' = [pc EXCEPT ![p] = "idle"]
             /\ last' = [NoLast EXCEPT !.op = "startup", !.id = p,
                                       !.fault = "fail"]
             /\ UNCHANGED lent
        ELSE /\ lent' = lent + 1
             /\ pc' = [pc EXCEPT ![p] = "init_count"]
             /\ last' = InRequest
    /\ UNCHANGED <<db, seqs, files, uuid_seq, loc>>

\* GET /api/admin/movies: jsonify(get_all_movies_from_db()); the wrapper
\* answers [] also where the import of database raises
ListRequest(variant) ==
    /\ \E fault \in Faults \cup {"import"} :
        last' = [NoLast EXCEPT
                   !.op = "list_request", !.ctx = variant, !.status = 200,
                   !.rows = IF fault = "import" THEN <<>>
                            ELSE get_all_movies(DefaultListLimit, fault),
                   !.fault = fault]
    /\ UNCHANGED <<db, seqs, files, uuid_seq, lent, pc, loc>>

\* a request is served once a worker has started
Serving == \E p \in Procs : pc[p] # "starting"

\* the database the workers start against: empty, or holding one movie
BootMovie == MovieRow(1, [title |-> <<"A", "b">>, language |-> "tamil"])

BootQuality ==
    QualityRow(1, 1, [code |-> "720p",
                      file_path |-> <<0, <<"e", ".", "m", "p", "4">>>>])

InitBoot ==
    /\ \E full \in BOOLEAN :
        /\ movies = IF full THEN {BootMovie} ELSE {}
        /\ qualities = IF full THEN {BootQuality} ELSE {}
        /\ movie_seq = IF full THEN 1 ELSE 0
        /\ quality_seq = IF full THEN 1 ELSE 0
    /\ subtitles = {} /\ watchlist = {} /\ download_log = {}
    /\ log_seq = 0
    /\ users = {} /\ user_seq = 0 /\ watch_seq = 0
    /\ files = {} /\ uuid_seq = 0 /\ lent = 0
    /\ pc = [p \in Procs |-> "starting"]
    /\ loc = [p \in Procs |-> NoLoc]
    /\ last = NoLast

\* a catalogue of one movie with one quality, every worker idle
InitRefs ==
    /\ movies = {BootMovie} /\ qualities = {BootQuality}
    /\ movie_seq = 1 /\ quality_seq = 1
    /\ subtitles = {} /\ watchlist = {} /\ download_log = {}
    /\ log_seq = 0
    /\ users = {} /\ user_seq = 0 /\ watch_seq = 0
    /\ files = {} /\ uuid_seq = 0 /\ lent = 0
    /\ pc = [p \in Procs |-> "idle"]
    /\ loc = [p \in Procs |-> NoLoc]
    /\ last = NoLast

\* ------------------------------------------------------------ specification
\* the functions of database.py called by concurrent workers
Next ==
    \/ \E p \in Procs : AddMovieQuality(p)
    \/ \E p \in Procs : AddMovie(p)
    \/ \E p \in Procs : LogDownload(p)
    \/ \E p \in Procs : TestConnection(p)
    \/ InsertSubtitle
    \/ \E p \in Procs : DeleteMovieSelect(p, "api")
    \/ \E p \in Procs : DeleteMovieDelete(p)

Spec == Init /\ [][Next]_vars

\* the upload and delete requests of either application, served concurrently
NextHttp ==
    \/ \E p \in Procs, v \in Variants : UploadReject(p, v, PlainForms)
    \/ \E p \in Procs, v \in Variants : UploadSaveFails(p, v, PlainForms)
    \/ \E p \in Procs, v \in Variants : UploadStore(p, v, PlainForms)
    \/ \E p \in Procs : UploadPersist(p)
    \/ \E p \in Procs : DeleteImportFails(p)
    \/ \E p \in Procs : DeleteMovieSelect(p, "request")
    \/ \E p \in Procs : DeleteMovieDelete(p)
    \/ \E p \in Procs : ReapCheck(p)
    \/ \E p \in Procs : ReapRemove(p)
    \/ \E p \in Procs : DeleteRespond(p)

SpecHttp == Init /\ [][NextHttp]_vars

\* uploads of every sampled form and the searches of either application,
\* served by one worker
NextSite ==
    \/ \E v \in Variants : UploadReject(1, v, UploadForms)
    \/ \E v \in Variants : UploadSaveFails(1, v, UploadForms)
    \/ \E v \in Variants : UploadStore(1, v, UploadForms)
    \/ UploadPersist(1)
    \/ \E v \in Variants : SearchRequest(v)

SpecSite == Init /\ [][NextSite]_vars

\* init_database called by concurrently starting workers
NextInit ==
    \/ \E p \in Procs : InitTables(p)
    \/ \E p \in Procs : InitCount(p)
    \/ \E p \in Procs : InitInsert(p)
    \/ \E p \in Procs : InitCommit(p)
    \/ InsertUser

SpecInit == Init /\ [][NextInit]_vars

\* the statistics asked of any catalogue
AskDashboardStats == last.op = "none" /\ GetDashboardStats

NextStats == AskDashboardStats

SpecStats == InitStats /\ [][NextStats]_vars

\* workers starting against a database that may be unreachable, and the
\* read requests they serve
ServeSearch(v) == Serving /\ SearchRequest(v)

ServeList(v) == Serving /\ ListRequest(v)

NextBoot ==
    \/ \E p \in Procs : Startup(p)
    \/ \E p \in Procs : InitCount(p)
    \/ \E p \in Procs : InitInsert(p)
    \/ \E p \in Procs : InitCommit(p)
    \/ \E v \in Variants : ServeSearch(v)
    \/ \E v \in Variants : ServeList(v)

SpecBoot == InitBoot /\ [][NextBoot]_vars

\* the watchlist and the admin listing over a growing catalogue
NextWatch ==
    \/ \E p \in Procs : AddMovie(p)
    \/ \E p \in Procs : AddToWatchlistInsert(p)
    \/ \E p \in Procs : AddToWatchlistCommit(p)
    \/ \E p \in Procs : GetAllMovies(p)

SpecWatch == Init /\ [][NextWatch]_vars

\* the rows that reference a movie, written by concurrent workers while
\* movies are deleted, over a catalogue that holds one movie
NextRefs ==
    \/ \E p \in Procs : AddMovieQuality(p)
    \/ InsertSubtitle
    \/ \E p \in Procs : AddToWatchlistInsert(p)
    \/ \E p \in Procs : AddToWatchlistCommit(p)
    \/ \E p \in Procs : DeleteMovieSelect(p, "api")
    \/ \E p \in Procs : DeleteMovieDelete(p)

SpecRefs == InitRefs /\ [][NextRefs]_vars

\* admin edits of a growing catalogue
NextUpdate ==
    \/ \E p \in Procs : AddMovie(p)
    \/ \E p \in Procs : UpdateMovie(p)

SpecUpdate == Init /\ [][NextUpdate]_vars

\* one read operation asked of any catalogue
AskSearchMovies == last.op = "none" /\ SearchMovies

AskDownloadLink == last.op = "none" /\ GetMovieDownloadLink

AskAllMovies == last.op = "none" /\ GetAllMovies(1)

NextQuery ==
    \/ AskSearchMovies
    \/ AskDownloadLink
    \/ AskAllMovies

SpecQuery == InitQuery /\ [][NextQuery]_vars

\* ==================================================================== claims
\* a movie_data mapping the schema accepts: every quality names a file and
\* the quality codes are pairwise distinct
ValidQualities(qs) ==
    /\ \A i \in 1..Len(qs) : qs[i].file_path # NoPath
    /\ \A i, j \in 1..Len(qs) : i # j => qs[i].code # qs[j].code

StripId(objs) ==
    [i \in 1..Len(objs) |->
        [code |-> objs[i].code, file_path |-> objs[i].file_path]]

\* C4: add_movie is all-or-nothing. When it reports failure (-1), neither
\* the movie row whose id it drew nor any quality row of that movie is in
\* the catalogue; when it reports an id, the movie row and one quality row
\* per supplied quality are there.
C4_AddMovieAllOrNothing ==
    last.op = "add_movie" =>
        IF last.ret = -1
        THEN /\ ~\E m \in movies : m.id = last.id
             /\ QualitiesOf(last.id) = {}
        ELSE /\ \E m \in movies : m.id = last.ret
             /\ Cardinality(QualitiesOf(last.ret)) = Len(last.input)

\* C4 witness: add_movie drew a movie id, a supplied quality repeated a
\* quality code, and the call reported failure
C4_Witness ==
    /\ last.op = "add_movie" /\ last.ret = -1 /\ last.id > 0
    /\ last.fault = "none"
    /\ Len(last.input) = 2 /\ last.input[1].code = last.input[2].code
    /\ last.input[1].file_path # NoPath /\ last.input[2].file_path # NoPath

\* C5: for a valid movie_data with N qualities, add_movie succeeds and
\* get_movie_by_id on the returned id lists exactly N qualities, the supplied
\* ones in any order.
C5_AddThenGet ==
    (last.op = "add_movie" /\ last.fault = "none"
        /\ ValidQualities(last.input)) =>
        /\ last.ret # -1
        /\ LET r == get_movie_by_id(last.ret)
           IN /\ r.found
              /\ Len(r.qualities) = Len(last.input)
              /\ SeqToBag(StripId(r.qualities)) = SeqToBag(last.input)

\* C5 witness: a movie with two qualities was just added while another movie
\* of the catalogue has a subtitle row
C5_Witness ==
    /\ last.op = "add_movie" /\ last.ret # -1 /\ Len(last.input) = 2
    /\ subtitles # {}

\* arguments of search_movies: title substrings in either case, or none
SearchTitles == {<<>>, <<"a">>, <<"A">>, <<"b">>, <<"a", "B">>}
SearchLangs == Langs \cup {Null}

\* C6: once delete_movie(id) has returned from a call in which the
\* backend failed no statement, get_movie_by_id(id) is NotFound and no
\* search_movies result contains id, whatever rows reference the movie.
C6_DeleteThenGone ==
    (last.op = "delete_movie" /\ last.fault = "none") =>
        /\ get_movie_by_id(last.id) = NotFound
        /\ \A t \in SearchTitles, l \in SearchLangs :
               LET found == search_movies(t, l, DefaultSearchLimit, "none")
               IN \A i \in 1..Len(found) : found[i].id # last.id

\* C7: delete_movie returns the file_path of every quality row of the movie
\* exactly when the deletion commits; when the deletion fails it returns the
\* empty list and removes no row; it never returns paths of a movie whose
\* row is still in the catalogue.
C7_DeletePathsAtomic ==
    last.op = "delete_movie" =>
        /\ IF last.committed
           THEN SeqToBag(last.paths) =
                    SeqToBag(FilePaths(SortById(last.before[2])))
           ELSE /\ last.paths = <<>>
                /\ last.before[1] \subseteq movies
                /\ last.before[2] \subseteq qualities
        /\ (last.paths # <<>> => ~\E m \in movies : m.id = last.id)

\* C10: whenever no operation is in progress, no connection is lent.
C10_NoLentWhenIdle ==
    (\A p \in Procs : pc[p] = "idle") => lent = 0

\* C1: when an upload request wrote its file and add_movie then failed, the
\* file is no longer in the upload directory when the response is returned.
C1_FailedUploadLeavesNoFile ==
    (last.op = "upload" /\ last.stored /\ last.ret = -1) =>
        last.file \notin files

\* C2: an upload answers success only when add_movie committed a movie row
\* whose id is the returned movie_id; when add_movie failed the answer is
\* success:false with status 500.
C2_UploadSuccessMeansCommitted ==
    last.op = "upload" =>
        /\ (last.success => \E m \in movies : m.id = last.ret)
        /\ ((last.stored /\ last.ret = -1) =>
               ~last.success /\ last.status = 500)

\* C3: whenever no upload or delete request is in progress, the file_path
\* values of the quality rows are exactly the files of the upload directory.
C3_FilesMatchRows ==
    (\A p \in Procs : pc[p] = "idle") =>
        {q.file_path : q \in qualities} = files

\* C8: a delete request whose database delete failed removes no file and
\* answers success:false.
C8_FailedDeleteReported ==
    (last.op = "delete_request" /\ ~last.committed) =>
        /\ last.removed = {}
        /\ ~last.success

\* C9: after a delete request whose database delete succeeded and in which
\* the file system refused no removal, none of the returned paths is in the
\* upload directory and the request answered success; absent and repeated
\* paths are skipped without error.
C9_ReapedAndSuccess ==
    (last.op = "delete_request" /\ last.committed /\ last.fault = "none") =>
        /\ \A f \in Range(last.paths) : f \notin files
        /\ last.success

\* C11: no two watchlist rows hold the same (user, movie) pair, and a call of
\* add_to_watchlist for an existing movie that the backend did not fail
\* answers True exactly when the pair was not yet in the watchlist, after
\* which the pair is in the watchlist.
C11_WatchlistIdempotent ==
    /\ \A w1, w2 \in watchlist :
          (w1.user_id = w2.user_id /\ w1.movie_id = w2.movie_id) => w1 = w2
    /\ (last.op = "add_to_watchlist" /\ last.fault = "none") =>
          /\ last.success <=>
                ~\E w \in last.before :
                    w.user_id = last.user /\ w.movie_id = last.id
          /\ \E w \in watchlist :
                w.user_id = last.user /\ w.movie_id = last.id

\* C11 witness: a later call for a pair already in the watchlist answered
\* False and the watchlist still holds the one row of the first call
C11_Witness ==
    /\ last.op = "add_to_watchlist" /\ last.fault = "none" /\ ~last.success
    /\ Cardinality(watchlist) = 1
    /\ \E w \in watchlist : w.user_id = last.user /\ w.movie_id = last.id

\* C19: every entry of get_all_movies carries the number of quality rows and
\* the number of watchlist rows of its movie, the entries are in descending
\* order of creation and there are at most limit of them.
C19_ListingCounts ==
    (last.op = "get_all_movies" /\ last.fault = "none") =>
        /\ Len(last.rows) <= last.limit
        /\ \A i \in 1..Len(last.rows) :
              /\ last.rows[i].quality_count =
                     Cardinality(QualitiesOf(last.rows[i].id))
              /\ last.rows[i].watchlist_count =
                     Cardinality(WatchlistOf(last.rows[i].id))
        /\ \A i, j \in 1..Len(last.rows) :
              i < j => last.rows[i].id > last.rows[j].id

\* the changes a call of update_movie may make to the movie rows: only the
\* row of movie id changes, in the columns cols and updated_at
OnlyColumnsChange(id, cols) ==
    /\ {m.id : m \in movies'} = {m.id : m \in movies}
    /\ \A m \in movies, n \in movies' :
          m.id = n.id =>
             IF m.id # id THEN n = m
             ELSE /\ ("title" \notin cols => n.title = m.title)
                  /\ ("language" \notin cols => n.language = m.language)
                  /\ ("is_active" \notin cols => n.is_active = m.is_active)
                  /\ ("year" \notin cols => n.year = m.year)

\* C17: update_movie with a non-empty mapping of recognized fields, the
\* backend failing nothing, returns True exactly when a movie of that id
\* exists, gives the named fields of that movie their new values and sets
\* updated_at anew, and changes no other field and no other row.
C17_UpdateExactFields ==
    [][(last'.op = "update_movie" /\ last'.fault = "none"
          /\ last'.keys # {} /\ last'.keys \subseteq RecognizedKeys) =>
         /\ last'.success <=> \E m \in movies : m.id = last'.id
         /\ OnlyColumnsChange(last'.id, last'.keys)
         /\ \A n \in movies' :
               n.id = last'.id =>
                  /\ \A m \in movies : m.id = n.id =>
                                          n.updated_at > m.updated_at
                  /\ ("title" \in last'.keys => n.title = NewValue("title"))
                  /\ ("language" \in last'.keys =>
                         n.language = NewValue("language"))
                  /\ ("is_active" \in last'.keys =>
                         n.is_active = NewValue("is_active"))
                  /\ ("year" \in last'.keys => n.year = NewValue("year"))
         /\ UNCHANGED <<qualities, subtitles, watchlist, download_log, users>>
      ]_vars

\* C17 witness: an update of title and year of an existing movie answered True
C17_Witness ==
    /\ last.op = "update_movie" /\ last.success
    /\ last.keys = {"title", "year"}
    /\ \E m \in movies : m.id = last.id /\ m.updated_at = 1 /\ m.year = 1

\* C18: update_movie with a mapping that holds a key outside the recognized
\* fields either returns False and changes nothing, or changes nothing but
\* the recognized fields named in the mapping and updated_at of movie id.
C18_UnknownKeyHarmless ==
    [][(last'.op = "update_movie" /\ last'.fault = "none"
          /\ ~(last'.keys \subseteq RecognizedKeys)) =>
         /\ UNCHANGED <<qualities, subtitles, watchlist, download_log, users>>
         /\ \/ ~last'.success /\ movies' = movies
            \/ OnlyColumnsChange(last'.id, last'.keys \cap RecognizedKeys)
      ]_vars

\* the active movies whose title contains the argument, letter case
\* ignored, and whose language is the argument, an absent argument not
\* filtering
ContainsMatches(title, language) ==
    {m \in movies :
        /\ m.is_active
        /\ Contains(Lower(m.title), Lower(title))
        /\ (language # Null => m.language = language)}

ContainsLinkMatches(title, language, code) ==
    {mq \in movies \X qualities :
        /\ mq[2].movie_id = mq[1].id
        /\ mq[1].is_active
        /\ Contains(Lower(mq[1].title), Lower(title))
        /\ mq[1].language = language
        /\ mq[2].code = code}

\* C14: get_movie_download_link(title, language, code), the backend failing
\* nothing, answers with a quality of that code owned by an active movie
\* whose title contains the argument ignoring letter case and whose language
\* is the argument, carrying that quality's file path, and answers None
\* exactly when there is no such movie and quality.
C14_LinkOnlyForMatch ==
    (last.op = "get_movie_download_link" /\ last.fault = "none") =>
        LET good == ContainsLinkMatches(last.title, last.language, last.code)
        IN IF last.success
           THEN \E mq \in good : /\ mq[1].id = last.id
                                 /\ mq[2].id = last.ret
                                 /\ mq[2].file_path = last.file
           ELSE good = {}

\* the movie a search for (title, lang, quality) is to find: an active movie
\* whose title contains the title sent ignoring letter case, in language
\* lang, owning a quality of code quality
Answers(m, title, lang, quality) ==
    /\ m.is_active
    /\ Contains(Lower(m.title), Lower(title))
    /\ m.language = lang
    /\ \E q \in QualitiesOf(m.id) : q.code = quality

\* C15: where an uploaded movie titled T in language L with a quality of code
\* Q is the only movie of the catalogue that matches, GET /api/search with a
\* title that T contains ignoring letter case, lang = L and quality = Q, the
\* database failing nothing, answers available: true with movie.title = T.
C15_UploadThenSearch ==
    (last.op = "search_request" /\ last.fault = "none") =>
        \A m \in movies :
            (/\ Answers(m, last.title, last.language, last.code)
             /\ \A o \in movies \ {m} :
                    ~Answers(o, last.title, last.language, last.code))
            => (last.success /\ last.input = m.title)

\* the file name ends in a dot and one of the five extensions, letter case
\* disregarded
HasListedExtension(fn) ==
    \E e \in ALLOWED_EXTENSIONS :
        /\ Len(fn) > Len(e)
        /\ Lower(SubSeq(fn, Len(fn) - Len(e), Len(fn))) = <<".">> \o e

\* the requests validation is to refuse
Rejectable(title, fn) ==
    title = <<>> \/ fn = NoPath \/ ~HasListedExtension(fn)

\* C16: an upload request with an empty title, without a file, or with a file
\* whose extension is none of mp4, avi, mkv, mov, webm is answered 400 by a
\* step that changes neither the upload directory nor the catalogue, and no
\* such request gets past validation.
C16_InvalidUploadRejected ==
    [][/\ (last'.op = "upload" /\ Rejectable(last'.title, last'.filename))
           => (last'.status = 400 /\ UNCHANGED <<db, files>>)
       /\ \A p \in Procs :
              (pc[p] = "idle" /\ pc'[p] = "up_persist")
              => ~Rejectable(loc'[p].sent, loc'[p].filename)]_vars

\* an upload of a titled file with the extension txt was answered 400
C16_Witness ==
    /\ last.op = "upload"
    /\ last.status = 400
    /\ last.title = <<"A", "b">>
    /\ last.filename = <<"m", ".", "t", "x", "t">>

\* C20: at no time do two rows of users have username "admin", and once a
\* call of init_database has run without a failure of the database, exactly
\* one row has.
C20_ExactlyOneAdmin ==
    /\ AdminCount <= 1
    /\ (last.op = "init_database" /\ last.fault = "none") => AdminCount = 1

\* C21: no operation of the catalogue store raises to its caller: whatever
\* fails in the backend, add_movie, add_movie_quality, log_download,
\* delete_movie and test_connection end by returning.
C21_NothingRaises ==
    last.op \in {"add_movie", "add_movie_quality", "log_download",
                 "delete_movie", "test_connection"} => ~last.raised

\* the number of active movies in language l
ActiveIn(l) == Cardinality({m \in movies : m.is_active /\ m.language = l})

\* C22: get_dashboard_stats changes no row; when nothing fails its
\* top_languages has at most 5 entries in descending order of count, each
\* count being the number of active movies in that language, and its
\* total_movies is the number of active movies; when a query fails it
\* returns the empty result.
C22_DashboardStats ==
    [][last'.op = "get_dashboard_stats" =>
          /\ UNCHANGED db
          /\ IF last'.fault = "none"
             THEN /\ last'.success
                  /\ Len(last'.rows) <= 5
                  /\ \A i, j \in 1..Len(last'.rows) :
                         i < j => last'.rows[i].count >= last'.rows[j].count
                  /\ \A i \in 1..Len(last'.rows) :
                         last'.rows[i].count = ActiveIn(last'.rows[i].language)
                  /\ last'.ret =
                         Cardinality({m \in movies : m.is_active})
             ELSE ~last'.success /\ last'.rows = <<>>]_vars

\* statistics taken of a catalogue with active movies in six languages and
\* an inactive movie: five entries, the first counting two movies
C22_Witness ==
    /\ last.op = "get_dashboard_stats"
    /\ last.success
    /\ Len(last.rows) = 5
    /\ last.rows[1].count = 2
    /\ last.ret = 7
    /\ \E m \in movies : ~m.is_active

\* the ids of the movies whose is_active is false
Inactive == {m.id : m \in movies \ {a \in movies : a.is_active}}

\* C23: a movie whose is_active is false is in no result of search_movies,
\* get_movie_by_id, get_movie_download_link or get_all_movies.
C23_InactiveNotReturned ==
    /\ \A id \in Inactive : get_movie_by_id(id) = NotFound
    /\ last.op \in {"search_movies", "get_all_movies"} =>
           \A i \in 1..Len(last.rows) : last.rows[i].id \notin Inactive
    /\ (last.op = "get_movie_download_link" /\ last.success) =>
           last.id \notin Inactive

\* C24: no operation updates or removes a row of download_log: every step
\* leaves the rows it found, also a delete_movie of a movie that log rows
\* reference.
C24_LogOnlyGrows == [][download_log \subseteq download_log']_vars

\* delete_movie has been called for a movie that a log row references
C24_Witness ==
    /\ last.op = "delete_movie"
    /\ \E l \in download_log : l.movie_id = last.id

\* C25: in every reachable state no two rows of qualities have the same
\* movie_id and quality code.
C25_QualityCodeUnique ==
    \A q1, q2 \in qualities :
        (q1.movie_id = q2.movie_id /\ q1.code = q2.code) => q1 = q2

\* add_movie was given two qualities of one code, each with a file path,
\* and the database failing nothing it returned -1
C25_Witness ==
    /\ last.op = "add_movie"
    /\ last.fault = "none"
    /\ last.ret = -1
    /\ Len(last.input) = 2
    /\ last.input[1].code = last.input[2].code
    /\ last.input[1].file_path # NoPath
    /\ last.input[2].file_path # NoPath

\* C26: the name an upload stores its file under is the name of no file in
\* the upload directory and the file_path of no quality row, whatever the
\* names other uploads, finished or in progress, sent; the quality rows of
\* two movies never name the same file.
C26_UploadsKeepApart ==
    [][/\ \A p \in Procs :
              (pc[p] = "idle" /\ pc'[p] = "up_persist") =>
                  /\ loc'[p].file \notin files
                  /\ \A q \in qualities : q.file_path # loc'[p].file
       /\ (last'.op = "upload" /\ last'.stored /\ uuid_seq' # uuid_seq) =>
              last'.file \notin files
       /\ \A q1, q2 \in qualities' :
              q1.movie_id # q2.movie_id => q1.file_path # q2.file_path]_vars

\* two uploads that sent the same file name have their own file each, named
\* by the quality rows of their two movies
C26_Witness ==
    \E q1, q2 \in qualities :
        /\ q1.movie_id # q2.movie_id
        /\ q1.file_path # q2.file_path
        /\ q1.file_path[2] = q2.file_path[2]
        /\ {q1.file_path, q2.file_path} \subseteq files

\* C27: a worker that starts while the database cannot be reached serves
\* afterwards, and while the database cannot be reached GET /api/search
\* answers available: false and GET /api/admin/movies answers the empty list
\* with status 200.
C27_DegradeNotCrash ==
    /\ (last.op = "startup" /\ last.fault # "none") =>
           (~last.raised /\ pc[last.id] = "idle")
    /\ (last.op = "search_request" /\ last.fault = "conn") => ~last.success
    /\ (last.op = "list_request" /\ last.fault = "conn") =>
           (last.status = 200 /\ last.rows = <<>>)

\* C28: get_movie_by_id of an active movie with Q quality rows and S
\* subtitle rows returns a qualities list of Q entries and a subtitles list
\* of S entries.
C28_OneEntryPerRow ==
    \A m \in movies :
        m.is_active =>
            LET r == get_movie_by_id(m.id)
            IN /\ r.found
               /\ Len(r.qualities) = Cardinality(QualitiesOf(m.id))
               /\ Len(r.subtitles) = Cardinality(SubtitlesOf(m.id))

\* C29: update_movie of an existing movie with the empty mapping or a
\* mapping that holds the key id only, the backend failing nothing, returns
\* True and changes updated_at of that movie and nothing else.
C29_EmptyUpdateTouches ==
    [][(last'.op = "update_movie" /\ last'.fault = "none"
          /\ last'.keys \subseteq {"id"}
          /\ \E m \in movies : m.id = last'.id) =>
         /\ last'.success
         /\ OnlyColumnsChange(last'.id, {})
         /\ \A n \in movies' : \A m \in movies :
                (n.id = last'.id /\ m.id = n.id) =>
                    n.updated_at > m.updated_at]_vars

\* C30: every quality row that a committed delete_movie removed with the
\* movie has its file_path in the list delete_movie returned, also when
\* add_movie_quality committed a row for the movie while the deletion ran.
C30_CascadedPathsReturned ==
    (last.op = "delete_movie" /\ last.committed) =>
        \A q \in last.before[2] : q.file_path \in Range(last.paths)

\* C31: a delete request for a movie with files, whose database delete
\* committed and in which the file system refused no removal, answers success
\* also when another delete request for the same movie runs beside it: a file
\* the other request removed between exists() and remove() counts as absent.
\* Afterwards the movie has no movie row and no quality row, and once both
\* requests have answered none of the returned files is in the upload
\* directory.
C31_ConcurrentDeletesSucceed ==
    (/\ last.op = "delete_request" /\ last.committed /\ last.fault = "none"
     /\ last.paths # <<>>) =>
        /\ last.success
        /\ ~\E m \in movies : m.id = last.id
        /\ QualitiesOf(last.id) = {}
        /\ (\A p \in Procs : pc[p] = "idle") =>
               \A f \in Range(last.paths) : f \notin files

\* C32: a step of an upload request that writes the catalogue is taken by a
\* request whose file.save has returned and whose file is in the upload
\* directory, and every quality row it adds names that file; when the file
\* write did not complete, the answer finds no quality row naming the file.
C32_CatalogAfterFile ==
    [][/\ \A q \in qualities' \ qualities :
              \E p \in Procs : /\ pc[p] = "up_persist" /\ pc'[p] = "idle"
                               /\ loc[p].saved /\ loc[p].file \in files
                               /\ q.file_path = loc[p].file
       /\ (movies' \ movies # {}) =>
              \E p \in Procs : /\ pc[p] = "up_persist" /\ pc'[p] = "idle"
                               /\ loc[p].saved /\ loc[p].file \in files
       /\ (last'.op = "upload" /\ ~last'.stored) =>
              \A q \in qualities' : q.file_path # last'.file]_vars

\* an upload committed its rows although an earlier upload left a partly
\* written file behind, which no row names
C32_Witness ==
    /\ last.op = "upload" /\ last.success /\ last.stored
    /\ \E m \in movies : m.id = last.ret
    /\ \E q \in qualities : q.movie_id = last.ret /\ q.file_path = last.file
    /\ \E f \in files : f[1] < last.file[1]
                        /\ \A q \in qualities : q.file_path # f

\* the movie ids that a quality, subtitle or watchlist row names although no
\* movie row has them
Dangling ==
    ({r.movie_id : r \in qualities} \cup {r.movie_id : r \in subtitles}
        \cup {r.movie_id : r \in watchlist})
    \ {m.id : m \in movies}

\* C33: every quality, subtitle and watchlist row names a movie row that
\* exists; a step that removes a movie row leaves no quality, subtitle or
\* watchlist row of that movie, and a quality or watchlist row is added only
\* for a movie id that existed when the row was written.
C33_ReferencesHold ==
    [][/\ Dangling = {} /\ Dangling' = {}
       /\ \A m \in movies \ movies' :
              /\ ~\E q \in qualities' : q.movie_id = m.id
              /\ ~\E t \in subtitles' : t.movie_id = m.id
              /\ ~\E w \in watchlist' : w.movie_id = m.id
       /\ \A q \in qualities' \ qualities :
              \E m \in movies : m.id = q.movie_id
       /\ \A w \in watchlist' \ watchlist :
              \E m \in movies : m.id = w.movie_id]_vars

\* a committed delete_movie took a movie together with its quality,
\* subtitle and watchlist rows
C33_Witness ==
    /\ last.op = "delete_movie" /\ last.committed
    /\ \A i \in 1..4 : last.before[i] # {}
    /\ movies = {} /\ qualities = {} /\ subtitles = {} /\ watchlist = {}

====
